---- MODULE Spec2Model ----
(***************************************************************************)
(* claripy's SMT translation backends.                                     *)
(*                                                                         *)
(*   backend_smtlib.py  BackendSMTLibBase: script assembly, the argument   *)
(*                      normalizer, the handler tables                     *)
(*   backend_smt.py     BackendSMT: the in-memory backend with its         *)
(*                      _assertion_stack of declarations                   *)
(*                                                                         *)
(* pysmt expressions are tagged tuples <<tag, field, ...>>.  Text is a     *)
(* sequence of tokens (strings); the token NL is the newline character, so *)
(* that joining, appending and splitting text behave as they do on Python  *)
(* strings.                                                                *)
(***************************************************************************)
EXTENDS Integers, Sequences, FiniteSets, TLC

VARIABLES
    constraints,        \* the AssertionSet handed to the script builder
    constructed,        \* the BackendSMTLibBase instances constructed so far
    daggify,            \* self.daggify of each instance
    log,                \* the scripts returned so far, each with its backend and shape
    expr_left,          \* _normalize_arguments: first operand
    expr_rigth,         \* _normalize_arguments: second operand
    norm_pc,            \* which normalizer calls have returned
    norm_result,        \* what _normalize_arguments(expr_left, expr_rigth) returned
    norm_swapped,       \* what _normalize_arguments(expr_rigth, expr_left) returned
    _assertion_stack,   \* BackendSMT._assertion_stack: the pending declarations
    outcome,            \* how the last backend call ended: its result or its error
    solver,             \* the solver object handed to the public script methods
    extras,             \* the extra constraints handed to the public script methods
    api,                \* the last public script call: its arguments and its result
    str_s,              \* strings.py: the first string argument
    str_t,              \* strings.py: the second string argument
    str_result,         \* strings.py: the last call and what it returned or raised
    raw_op,             \* the raw handler of BackendSMTLibBase that is called
    raw_result,         \* what that handler returned for (expr_left, expr_rigth)
    pass_tree,          \* the constraint tree each translation pass works on
    pass_pos,           \* how many leaf handlers each pass has called
    pass_stack          \* the list of each pass when every pass has its own backend

scriptVars == <<constraints, constructed, daggify, log>>
normVars == <<expr_left, expr_rigth, norm_pc, norm_result, norm_swapped>>
convVars == <<_assertion_stack, outcome>>
apiVars == <<solver, extras, api>>
strVars == <<str_s, str_t, str_result>>
rawVars == <<raw_op, raw_result>>
passVars == <<pass_tree, pass_pos, pass_stack>>
vars == <<constraints, constructed, daggify, log,
          expr_left, expr_rigth, norm_pc, norm_result, norm_swapped,
          _assertion_stack, outcome, solver, extras, api, str_s, str_t, str_result,
          raw_op, raw_result, pass_tree, pass_pos, pass_stack>>

\* ------------------------------------------------------------------ bounds

\* longest AssertionSet the script builder is given
MaxCsts == 2

\* ---------------------------------------------------- sequences and text

NL == "\n"

RECURSIVE Flatten(_)
\* the concatenation of a sequence of token sequences
Flatten(ss) == IF ss = <<>> THEN <<>> ELSE Head(ss) \o Flatten(Tail(ss))

RECURSIVE Join(_, _)
\* sep.join(parts) on token sequences
Join(parts, sep) ==
    IF parts = <<>> THEN <<>>
    ELSE IF Len(parts) = 1 THEN parts[1]
    ELSE parts[1] \o <<sep>> \o Join(Tail(parts), sep)

RECURSIVE Split(_, _)
\* text.split(sep): the pieces between the separators, empty pieces kept
Split(text, sep) ==
    IF \A i \in 1..Len(text) : text[i] # sep THEN <<text>>
    ELSE LET k == CHOOSE i \in 1..Len(text) :
                      text[i] = sep /\ \A j \in 1..(i - 1) : text[j] # sep
         IN <<SubSeq(text, 1, k - 1)>> \o Split(SubSeq(text, k + 1, Len(text)), sep)

\* the lines of a text that ends with a newline
Lines(text) ==
    LET pieces == Split(text, NL)
    IN IF pieces[Len(pieces)] = <<>> THEN SubSeq(pieces, 1, Len(pieces) - 1) ELSE pieces

Range(s) == {s[i] : i \in 1..Len(s)}

RECURSIVE Perms(_)
\* every order in which a Python set can be iterated
Perms(S) ==
    IF S = {} THEN {<<>>}
    ELSE UNION {{<<x>> \o p : p \in Perms(S \ {x})} : x \in S}

RECURSIVE SeqsUpTo(_, _)
SeqsUpTo(S, n) ==
    IF n = 0 THEN {<<>>}
    ELSE SeqsUpTo(S, n - 1) \cup
         {Append(s, x) : s \in {t \in SeqsUpTo(S, n - 1) : Len(t) = n - 1}, x \in S}

\* ------------------------------------------------ Python string ordering

\* code points of the characters of each symbol name in use
CodePoints(name) ==
    CASE name = ""   -> <<>>
      [] name = "1x" -> <<49, 120>>
      [] name = "a b" -> <<97, 32, 98>>
      [] name = "b"  -> <<98>>
      [] name = "n"  -> <<110>>
      [] name = "x"  -> <<120>>
      [] name = "xy" -> <<120, 121>>
      [] name = "y"  -> <<121>>
      [] name = "z"  -> <<122>>

RECURSIVE SeqLess(_, _)
SeqLess(a, b) ==
    IF b = <<>> THEN FALSE
    ELSE IF a = <<>> THEN TRUE
    ELSE IF Head(a) # Head(b) THEN Head(a) < Head(b)
    ELSE SeqLess(Tail(a), Tail(b))

\* a < b on Python str: lexicographic on code points
StrLess(a, b) == SeqLess(CodePoints(a), CodePoints(b))

\* ------------------------------------------------------ pysmt expressions

Symbol(name, type) == <<"Symbol", name, type>>
String(value) == <<"String", value>>
IntConst(value) == <<"Int", value>>
Bool(value) == <<"Bool", value>>
BV(value, width) == <<"BV", value, width>>
Equals(l, r) == <<"Equals", l, r>>
Not(e) == <<"Not", e>>
\* pysmt builds a disequality as the negation of the equality
NotEquals(l, r) == Not(Equals(l, r))
LT(l, r) == <<"LT", l, r>>
LE(l, r) == <<"LE", l, r>>
\* pysmt has no node for > and >=: it builds < and <= with the operands exchanged
GT(l, r) == LT(r, l)
GE(l, r) == LE(r, l)
Or(l, r) == <<"Or", l, r>>
BVAdd(l, r) == <<"BVAdd", l, r>>
BVSub(l, r) == <<"BVSub", l, r>>
StrLength(s) == <<"StrLength", s>>
StrConcat(l, r) == <<"StrConcat", l, r>>
StrSubstr(s, i, j) == <<"StrSubstr", s, i, j>>
StrReplace(s, t1, t2) == <<"StrReplace", s, t1, t2>>
StrContains(s, t) == <<"StrContains", s, t>>
StrPrefixOf(s, t) == <<"StrPrefixOf", s, t>>
StrSuffixOf(s, t) == <<"StrSuffixOf", s, t>>
StrIndexOf(s, t, i) == <<"StrIndexOf", s, t, i>>
StrToInt(s) == <<"StrToInt", s>>

is_symbol(e) == e[1] = "Symbol"
symbol_name(e) == e[2]
symbol_type(e) == e[3]
IsLeaf(e) == e[1] \in {"Symbol", "String", "Int", "Bool", "BV"}
Args(e) == SubSeq(e, 2, Len(e))

RECURSIVE get_free_variables(_)
get_free_variables(e) ==
    IF is_symbol(e) THEN {e}
    ELSE IF IsLeaf(e) THEN {}
    ELSE UNION {get_free_variables(e[i]) : i \in 2..Len(e)}

\* the type's declaration syntax, function style
as_smtlib(type) == <<"() ", type>>

\* the SMT-LIB name of an operator node
OperatorText(tag) ==
    CASE tag = "Equals"      -> "="
      [] tag = "Not"         -> "not"
      [] tag = "LT"          -> "<"
      [] tag = "LE"          -> "<="
      [] tag = "Or"          -> "or"
      [] tag = "BVAdd"       -> "bvadd"
      [] tag = "BVSub"       -> "bvsub"
      [] tag = "StrLength"   -> "str.len"
      [] tag = "StrConcat"   -> "str.++"
      [] tag = "StrSubstr"   -> "str.substr"
      [] tag = "StrReplace"  -> "str.replace"
      [] tag = "StrContains" -> "str.contains"
      [] tag = "StrPrefixOf" -> "str.prefixof"
      [] tag = "StrSuffixOf" -> "str.suffixof"
      [] tag = "StrIndexOf"  -> "str.indexof"
      [] tag = "StrToInt"    -> "str.to.int"

RECURSIVE BinStr(_, _)
\* the width binary digits of value, most significant first
BinStr(value, width) ==
    IF width = 0 THEN <<>>
    ELSE Append(BinStr(value \div 2, width - 1), ToString(value % 2))

\* the printers' text of a leaf node
LeafText(e) ==
    CASE e[1] = "Symbol" -> <<e[2]>>
      [] e[1] = "String" -> <<"\"", e[2], "\"">>
      [] e[1] = "Int"    -> IF e[2] < 0 THEN <<"(- ", ToString(0 - e[2]), ")">>
                            ELSE <<ToString(e[2])>>
      [] e[1] = "Bool"   -> IF e[2] THEN <<"true">> ELSE <<"false">>
      [] e[1] = "BV"     -> <<"#b">> \o BinStr(e[2], e[3])

RECURSIVE TreeText(_)
\* the tree printer: every operator application written out in place
TreeText(e) ==
    IF IsLeaf(e) THEN LeafText(e)
    ELSE <<"(", OperatorText(e[1])>>
         \o Flatten([i \in 1..(Len(e) - 1) |-> <<" ">> \o TreeText(e[i + 1])])
         \o <<")">>

IndexIn(e, names) == CHOOSE i \in 1..Len(names) : names[i] = e

\* what the DAG printer writes for an operand: a leaf's text or the name bound to it
DagKey(e, names) ==
    IF IsLeaf(e) THEN LeafText(e) ELSE <<".def_", ToString(IndexIn(e, names) - 1)>>

RECURSIVE DagWalk(_, _)
RECURSIVE DagWalkArgs(_, _, _)
\* the DAG printer's walk: each distinct operator application is bound once by a let,
\* operands before the application, the last operand first
DagWalk(e, st) ==
    IF IsLeaf(e) \/ e \in Range(st.names) THEN st
    ELSE LET done == DagWalkArgs(e, Len(e), st)
             sym == <<".def_", ToString(Len(done.names))>>
             names2 == Append(done.names, e)
         IN [names |-> names2,
             out |-> done.out \o <<"(let ((">> \o sym \o <<" (", OperatorText(e[1])>>
                     \o Flatten([i \in 1..(Len(e) - 1) |->
                                    <<" ">> \o DagKey(e[i + 1], names2)])
                     \o <<"))) ">>]
DagWalkArgs(e, i, st) ==
    IF i < 2 THEN st ELSE DagWalkArgs(e, i - 1, DagWalk(e[i], st))

\* the DAG printer: the let bindings, the key of the formula, the closing parentheses
DagText(e) ==
    LET done == DagWalk(e, [names |-> <<>>, out |-> <<>>])
    IN done.out \o DagKey(e, done.names) \o [i \in 1..Len(done.names) |-> ")"]

to_smtlib(e, dag) == IF dag THEN DagText(e) ELSE TreeText(e)

\* ------------------------------------------- backend_smtlib.py: the script

RECURSIVE InsertByName(_, _)
\* v placed behind every entry whose name is not greater, as a stable sort places it
InsertByName(done, v) ==
    IF done = <<>> THEN <<v>>
    ELSE IF StrLess(symbol_name(v), symbol_name(Head(done))) THEN <<v>> \o done
    ELSE <<Head(done)>> \o InsertByName(Tail(done), v)

RECURSIVE SortByName(_)
SortByName(iterable) ==
    IF iterable = <<>> THEN <<>>
    ELSE InsertByName(SortByName(SubSeq(iterable, 1, Len(iterable) - 1)),
                      iterable[Len(iterable)])

\* the list handed over unsorted, in the order the set happened to be iterated
sorted_missing(iterable) == iterable

\* sorted(iterable, key=lambda s: s.symbol_name())
sorted(iterable) == SortByName(iterable)

\* set().union(*[c.get_free_variables() for c in constraints])
free_variable_set(cs) == UNION {get_free_variables(cs[i]) : i \in 1..Len(cs)}

_expr_to_smtlib(e, dag) ==
    IF is_symbol(e)
    THEN <<"(declare-fun ", symbol_name(e), " ">> \o as_smtlib(symbol_type(e)) \o <<")">>
    ELSE <<"(assert ">> \o to_smtlib(e, dag) \o <<")">>

_exprs_to_smtlib(exprs, dag) ==
    Join([i \in 1..Len(exprs) |-> _expr_to_smtlib(exprs[i], dag)], NL) \o <<NL>>

\* iteration is the order in which sorted() reads the set of free variables
_csts_to_smtlib_exprs(cs, dag, iteration) ==
    LET free_variables == sorted(iteration)
        all_exprs == free_variables \o cs
    IN _exprs_to_smtlib(all_exprs, dag)

\* kwargs.pop('daggify', True); kwargs is <<>> or <<value>>
kwargs_pop_daggify(kwargs) == IF kwargs = <<>> THEN TRUE ELSE kwargs[1]

_smtlib_exprs(self, cs, iteration) == _csts_to_smtlib_exprs(cs, self.daggify, iteration)

_get_satisfiability_smt_script(self, cs, iteration) ==
    <<"(set-logic ALL)", NL>>
    \o _smtlib_exprs(self, cs, iteration)
    \o <<"(check-sat)", NL>>

\* the model script with (get-model) written before (check-sat)
full_model_get_model_first(self, cs, iteration) ==
    <<"(set-logic ALL)", NL>>
    \o <<"(set-option :produce-models true)", NL>>
    \o _smtlib_exprs(self, cs, iteration)
    \o <<"(get-model)", NL>>
    \o <<"(check-sat)", NL>>

_get_full_model_smt_script(self, cs, iteration) ==
    <<"(set-logic ALL)", NL>>
    \o <<"(set-option :produce-models true)", NL>>
    \o _smtlib_exprs(self, cs, iteration)
    \o <<"(check-sat)", NL>>
    \o <<"(get-model)", NL>>

\* ---------------------------------------------------- the script builder

Inst == {1, 2}

SymX == Symbol("x", "String")
SymY == Symbol("y", "String")
SymZ == Symbol("z", "String")
SymXY == Symbol("xy", "String")
SymB == Symbol("b", "Bool")

\* the members an AssertionSet is drawn from
CstExprs ==
    { Equals(SymZ, SymX),
      Equals(SymY, SymZ),
      Equals(SymXY, String("bar")),
      Equals(StrLength(SymX), IntConst(3)),
      Equals(StrLength(SymY), StrLength(SymY)),
      SymB,
      Bool(TRUE) }

Self(i) == [daggify |-> daggify[i]]

InitScript ==
    /\ constraints \in SeqsUpTo(CstExprs, MaxCsts)
    /\ constructed = {}
    /\ daggify = [i \in Inst |-> TRUE]
    /\ log = {}

\* BackendSMTLibBase(*args, **kwargs)
Construct(i, kwargs) ==
    /\ i \notin constructed
    /\ constructed' = constructed \cup {i}
    /\ daggify' = [daggify EXCEPT ![i] = kwargs_pop_daggify(kwargs)]
    /\ UNCHANGED <<constraints, log>>
    /\ UNCHANGED <<normVars, convVars, apiVars, strVars, rawVars, passVars>>

\* backend i ._get_satisfiability_smt_script(constraints)
GetSatisfiability(i, iteration) ==
    /\ i \in constructed
    /\ log' = log \cup {[inst |-> i, variant |-> "sat",
                         text |-> _get_satisfiability_smt_script(Self(i), constraints,
                                                                 iteration)]}
    /\ UNCHANGED <<constraints, constructed, daggify>>
    /\ UNCHANGED <<normVars, convVars, apiVars, strVars, rawVars, passVars>>

\* backend i ._get_full_model_smt_script(constraints)
GetFullModel(i, iteration) ==
    /\ i \in constructed
    /\ log' = log \cup {[inst |-> i, variant |-> "full",
                         text |-> _get_full_model_smt_script(Self(i), constraints,
                                                             iteration)]}
    /\ UNCHANGED <<constraints, constructed, daggify>>
    /\ UNCHANGED <<normVars, convVars, apiVars, strVars, rawVars, passVars>>

NextScript ==
    \/ \E i \in Inst, kwargs \in {<<>>, <<TRUE>>, <<FALSE>>} : Construct(i, kwargs)
    \/ \E i \in Inst, iteration \in Perms(free_variable_set(constraints)) :
           GetSatisfiability(i, iteration)
    \/ \E i \in Inst, iteration \in Perms(free_variable_set(constraints)) :
           GetFullModel(i, iteration)

\* --------------------------------------------------------- the normalizer

\* width of the fixed-width literals handed to the normalizer
BVWidth == 4

RECURSIVE Pow2(_)
Pow2(n) == IF n = 0 THEN 1 ELSE 2 * Pow2(n - 1)

\* the node types pysmt counts as string operations
STR_OPERATORS ==
    {"StrLength", "StrConcat", "StrContains", "StrIndexOf", "StrReplace", "StrSubstr",
     "StrPrefixOf", "StrSuffixOf", "StrToInt", "IntToStr", "StrCharAt"}

is_str_op(e) == e[1] \in STR_OPERATORS
is_bv_constant(e) == e[1] = "BV"

\* the literal's value read as a two's complement number of its width
bv_signed_value(e) == IF e[2] >= Pow2(e[3] - 1) THEN e[2] - Pow2(e[3]) ELSE e[2]

_normalize_arguments(left, rigth) ==
    IF is_str_op(left) /\ is_bv_constant(rigth)
    THEN <<left, IntConst(bv_signed_value(rigth))>>
    ELSE IF is_bv_constant(left) /\ is_str_op(rigth)
    THEN <<rigth, IntConst(bv_signed_value(left))>>
    ELSE <<left, rigth>>

\* the operands the normalizer is tried on
Operands ==
    { StrConcat(SymX, String("a")),
      StrLength(SymX),
      SymX,
      String("bar"),
      BV(3, BVWidth),
      BV(Pow2(BVWidth) - 3, BVWidth),
      IntConst(3),
      Symbol("n", "Int"),
      Bool(TRUE) }

InitNorm ==
    /\ expr_left \in Operands
    /\ expr_rigth \in Operands
    /\ norm_pc = {}
    /\ norm_result = <<>>
    /\ norm_swapped = <<>>

InitNormIdle ==
    /\ expr_left = Bool(TRUE)
    /\ expr_rigth = Bool(TRUE)
    /\ norm_pc = {}
    /\ norm_result = <<>>
    /\ norm_swapped = <<>>

InitScriptIdle ==
    /\ constraints = <<>>
    /\ constructed = {}
    /\ daggify = [i \in Inst |-> TRUE]
    /\ log = {}

\* _normalize_arguments(expr_left, expr_rigth)
Normalize ==
    /\ "normal" \notin norm_pc
    /\ norm_result' = _normalize_arguments(expr_left, expr_rigth)
    /\ norm_pc' = norm_pc \cup {"normal"}
    /\ UNCHANGED <<expr_left, expr_rigth, norm_swapped>>
    /\ UNCHANGED <<scriptVars, convVars, apiVars, strVars, rawVars, passVars>>

\* the operand-swapped call, _normalize_arguments(expr_rigth, expr_left)
NormalizeSwapped ==
    /\ "swapped" \notin norm_pc
    /\ norm_swapped' = _normalize_arguments(expr_rigth, expr_left)
    /\ norm_pc' = norm_pc \cup {"swapped"}
    /\ UNCHANGED <<expr_left, expr_rigth, norm_result>>
    /\ UNCHANGED <<scriptVars, convVars, apiVars, strVars, rawVars, passVars>>

NextNorm == Normalize \/ NormalizeSwapped

\* ------------------------------------------ the two backends: translation

\* most declarations BackendSMT's list is let grow to
MaxStack == 4

\* BackendSMTLibBase.__init__: the keys of self._op_expr and of self._op_raw
_op_expr_SMTLib == {"StringV", "StringS", "BoolV", "BVV", "BVS"}
_op_raw_SMTLib ==
    {"__add__", "__sub__", "__eq__", "__ne__", "__lt__", "__le__", "__gt__", "__ge__",
     "Or", "StrConcat", "StrSubstr", "StrExtract", "StrLen", "StrReplace",
     "StrContains", "StrPrefixOf", "StrSuffixOf", "StrIndexOf", "StrToInt"}

\* BackendSMT.__init__: the keys of self._op_expr and of self._op_raw
_op_expr_SMT == {"StringV", "StringS"}
_op_raw_SMT == {"__eq__", "Concat"}

_op_expr(backend) == IF backend = "smtlib" THEN _op_expr_SMTLib ELSE _op_expr_SMT
_op_raw(backend) == IF backend = "smtlib" THEN _op_raw_SMTLib ELSE _op_raw_SMT

\* operations whose arguments are literals, never nodes
LeafOps == {"StringV", "StringS", "BoolV", "BVV", "BVS"}

\* the positions of an AST node's arguments that are nodes themselves
ChildPositions(ast) ==
    CASE ast[1] \in LeafOps -> {}
      [] ast[1] = "StrExtract" -> {4}
      [] ast[1] \in {"StrLen", "StrToInt"} -> {2}
      [] ast[1] = "StrIndexOf" -> {2, 3}
      [] OTHER -> 2..Len(ast)

DeclareConst(name, sort) == [name |-> name, sort |-> sort]

\* DeclareConst.__repr__
DeclareConst_repr(decl) == <<"(declare-const ", decl.name, " ", decl.sort, ")">>

\* the leaf handlers of BackendSMTLibBase; they leave the backend as it is
leaf_smtlib(ast) ==
    CASE ast[1] = "StringV" -> String(ast[2])
      [] ast[1] = "StringS" -> Symbol(ast[2], "String")
      [] ast[1] = "BoolV"   -> Bool(ast[2])
      [] ast[1] = "BVV"     -> IntConst(ast[2])
      [] ast[1] = "BVS"     -> Symbol(ast[2], "Int")

\* the raw handlers of BackendSMTLibBase
raw_smtlib(op, args) ==
    CASE op = "__add__" -> BVAdd(args[1], args[2])
      [] op = "__sub__" -> BVSub(args[1], args[2])
      [] op = "__eq__" -> LET n == _normalize_arguments(args[1], args[2])
                          IN Equals(n[1], n[2])
      [] op = "__ne__" -> LET n == _normalize_arguments(args[1], args[2])
                          IN NotEquals(n[1], n[2])
      [] op = "__lt__" -> LET n == _normalize_arguments(args[1], args[2]) IN LT(n[1], n[2])
      [] op = "__le__" -> LET n == _normalize_arguments(args[1], args[2]) IN LE(n[1], n[2])
      [] op = "__gt__" -> LET n == _normalize_arguments(args[1], args[2]) IN GT(n[1], n[2])
      [] op = "__ge__" -> LET n == _normalize_arguments(args[1], args[2]) IN GE(n[1], n[2])
      [] op = "Or" -> Or(args[1], args[2])
      [] op = "StrConcat" -> StrConcat(args[1], args[2])
      [] op = "StrSubstr" -> StrSubstr(args[3], args[1], args[2])
      [] op = "StrExtract" -> StrSubstr(args[3], IntConst(args[1]), IntConst(args[2]))
      [] op = "StrLen" -> StrLength(args[1])
      [] op = "StrReplace" -> StrReplace(args[1], args[2], args[3])
      [] op = "StrContains" -> StrContains(args[1], args[2])
      [] op = "StrPrefixOf" -> StrPrefixOf(args[1], args[2])
      [] op = "StrSuffixOf" -> StrSuffixOf(args[1], args[2])
      [] op = "StrIndexOf" -> StrIndexOf(args[1], args[2], IntConst(0))
      [] op = "StrToInt" -> StrToInt(args[1])

\* StringS returning its symbol without a declaration
leaf_smt_undeclared(ast, stack) ==
    IF ast[1] = "StringV"
    THEN [expr |-> String(ast[2]), stack |-> stack]
    ELSE [expr |-> Symbol(ast[2], "String"), stack |-> stack]

\* StringS putting its declaration at the front of the list instead of the end
leaf_smt_prepend(ast, stack) ==
    IF ast[1] = "StringV"
    THEN [expr |-> String(ast[2]), stack |-> stack]
    ELSE [expr |-> Symbol(ast[2], "String"),
          stack |-> <<DeclareConst(ast[2], "String")>> \o stack]

\* BackendSMT.StringV and BackendSMT.StringS: the expression and the list afterwards
leaf_smt(ast, stack) ==
    IF ast[1] = "StringV"
    THEN [expr |-> String(ast[2]), stack |-> stack]
    ELSE [expr |-> Symbol(ast[2], "String"),
          stack |-> Append(stack, DeclareConst(ast[2], "String"))]

\* BackendSMT._op_raw_eq and BackendSMT._op_raw_concat
raw_smt(op, args) ==
    IF op = "__eq__" THEN Equals(args[1], args[2]) ELSE StrConcat(args[1], args[2])

Returned(value, stack) ==
    [status |-> "returned", exc |-> "", arg |-> "", value |-> value, stack |-> stack]
Raised(exc, arg, stack) ==
    [status |-> "raised", exc |-> exc, arg |-> arg, value |-> <<>>, stack |-> stack]

\* an unregistered operation yields its first operand instead of an error
dispatch_raw_lenient(backend, op, args, stack) ==
    IF op \in _op_raw(backend)
    THEN Returned(IF backend = "smtlib" THEN raw_smtlib(op, args) ELSE raw_smt(op, args),
                  stack)
    ELSE Returned(IF args = <<>> THEN Bool(TRUE) ELSE args[1], stack)

\* the raw tier: the handler registered for op combines the translated operands; an
\* operation without a handler is an error that names it
dispatch_raw(backend, op, args, stack) ==
    IF op \in _op_raw(backend)
    THEN Returned(IF backend = "smtlib" THEN raw_smtlib(op, args) ELSE raw_smt(op, args),
                  stack)
    ELSE Raised("UnsupportedOperationError", op, stack)

RECURSIVE convert(_, _, _)
RECURSIVE convert_args(_, _, _, _, _)
\* translate(node): a leaf handler gets the node itself; otherwise the operands are
\* translated first, depth first and left to right, and handed to the raw tier; the
\* first error ends the pass, with the declarations made so far left on the list
convert(backend, ast, stack) ==
    IF ast[1] \in _op_expr(backend)
    THEN IF backend = "smtlib" THEN Returned(leaf_smtlib(ast), stack)
         ELSE LET r == leaf_smt(ast, stack) IN Returned(r.expr, r.stack)
    ELSE LET kids == convert_args(backend, ast, 2, <<>>, stack)
         IN IF kids.status = "raised" THEN kids
            ELSE dispatch_raw(backend, ast[1], kids.value, kids.stack)
\* the operands of ast from position i on, behind those already translated
convert_args(backend, ast, i, done, stack) ==
    IF i > Len(ast) THEN Returned(done, stack)
    ELSE IF i \notin ChildPositions(ast)
    THEN convert_args(backend, ast, i + 1, Append(done, ast[i]), stack)
    ELSE LET r == convert(backend, ast[i], stack)
         IN IF r.status = "raised" THEN r
            ELSE convert_args(backend, ast, i + 1, Append(done, r.value), r.stack)

RECURSIVE convert_list(_, _, _, _)
\* the nodes of a constraint set translated in order; the first error ends the pass
convert_list(backend, asts, done, stack) ==
    IF asts = <<>> THEN Returned(done, stack)
    ELSE LET r == convert(backend, Head(asts), stack)
         IN IF r.status = "raised" THEN r
            ELSE convert_list(backend, Tail(asts), Append(done, r.value), r.stack)

\* BackendSMTLibBase._satisfiable
_satisfiable_smtlib(extra_constraints) ==
    Raised("BackendError",
           "Use a specialized backend for solving SMTLIB formatted constraints!", <<>>)

\* _satisfiable printing only the declarations of the names its constraints hold
_satisfiable_smt_referenced(stack, extra_constraints) ==
    LET used == {symbol_name(v) : v \in free_variable_set(extra_constraints)}
        IsUsed(decl) == decl.name \in used
        kept == SelectSeq(stack, IsUsed)
    IN Returned(Join([i \in 1..Len(kept) |-> DeclareConst_repr(kept[i])], NL)
                \o <<NL, "(assert", NL>>
                \o Join([i \in 1..Len(extra_constraints) |->
                            to_smtlib(extra_constraints[i], TRUE)], NL)
                \o <<NL, ")">>
                \o <<NL, "(check-sat)">>,
                stack)

\* BackendSMT._satisfiable
_satisfiable_smt(stack, extra_constraints) ==
    Returned(Join([i \in 1..Len(stack) |-> DeclareConst_repr(stack[i])], NL)
             \o <<NL, "(assert", NL>>
             \o Join([i \in 1..Len(extra_constraints) |->
                         to_smtlib(extra_constraints[i], TRUE)], NL)
             \o <<NL, ")">>
             \o <<NL, "(check-sat)">>,
             stack)

ASx == <<"StringS", "x", 8>>
ASy == <<"StringS", "y", 8>>
AVbar == <<"StringV", "bar", 3>>

\* the constraint trees handed to the backends
ASTs ==
    { <<"__eq__", ASx, AVbar>>,
      <<"__eq__", ASx, ASx>>,
      <<"__eq__", <<"Concat", ASx, ASy>>, ASy>>,
      <<"__eq__", <<"StrConcat", ASx, ASy>>, AVbar>>,
      <<"__eq__", <<"StrLen", ASx, 32>>, <<"BVV", 3, 32>>>>,
      <<"__mul__", <<"BVV", 3, 32>>, <<"BVS", "n", 32>>>>,
      <<"Or", <<"BoolV", TRUE>>, <<"__eq__", ASy, <<"Concat", ASy, AVbar>>>>>>,
      ASy }

\* constraint trees with a symbol whose name is not an identifier
MalformedASTs ==
    { <<"StringS", "1x", 8>>,
      <<"__eq__", <<"StringS", "a b", 8>>, AVbar>>,
      <<"BVS", "", 32>> }

\* the constraint sets handed to BackendSMTLibBase for a script
ConstraintSets ==
    { <<>>,
      <<<<"__eq__", ASx, AVbar>>>>,
      <<<<"__eq__", ASy, ASx>>, <<"__eq__", <<"StrLen", ASx, 32>>, <<"BVV", 3, 32>>>>>>,
      <<<<"__eq__", ASx, AVbar>>, <<"__eq__", <<"Concat", ASx, ASy>>, ASy>>>>,
      <<<<"Or", <<"BoolV", TRUE>>, <<"__eq__", ASy, <<"Concat", ASy, AVbar>>>>>>,
        <<"__eq__", ASx, AVbar>>>>,
      <<<<"__mul__", <<"BVV", 3, 32>>, <<"BVS", "n", 32>>>>>> }

\* the translated constraints handed to BackendSMT._satisfiable
ExtraConstraints ==
    { <<>>,
      <<Equals(SymX, String("bar"))>>,
      <<Equals(SymX, SymY), Equals(StrConcat(SymX, SymY), SymY)>> }

NoOutcome ==
    [call |-> "none", backend |-> "", input |-> <<>>,
     status |-> "", exc |-> "", arg |-> "", value |-> <<>>]

Outcome(call, backend, input, r) ==
    [call |-> call, backend |-> backend, input |-> input,
     status |-> r.status, exc |-> r.exc, arg |-> r.arg, value |-> r.value]

InitConv ==
    /\ _assertion_stack = <<>>
    /\ outcome = NoOutcome

\* one translation pass of BackendSMT over a constraint tree
ConvertSMT(ast) ==
    LET r == convert("smt", ast, _assertion_stack)
    IN /\ Len(r.stack) <= MaxStack
       /\ _assertion_stack' = r.stack
       /\ outcome' = Outcome("convert", "smt", ast, r)
       /\ UNCHANGED <<scriptVars, normVars, apiVars, strVars, rawVars, passVars>>

\* one translation pass of BackendSMTLibBase over a constraint tree
ConvertSMTLib(ast) ==
    LET r == convert("smtlib", ast, <<>>)
    IN /\ outcome' = Outcome("convert", "smtlib", ast, r)
       /\ UNCHANGED <<_assertion_stack, scriptVars, normVars, apiVars, strVars, rawVars,
                 passVars>>

\* a constraint set translated by BackendSMTLibBase and, when every node translated, the
\* satisfiability script built from the result
ScriptSMTLib(asts) ==
    LET r == convert_list("smtlib", asts, <<>>, <<>>)
    IN /\ IF r.status = "raised"
          THEN outcome' = Outcome("script", "smtlib", asts, r)
          ELSE \E iteration \in Perms(free_variable_set(r.value)) :
                   outcome' =
                       Outcome("script", "smtlib", asts,
                               Returned(_get_satisfiability_smt_script(
                                            [daggify |-> TRUE], r.value, iteration),
                                        <<>>))
       /\ UNCHANGED <<_assertion_stack, scriptVars, normVars, apiVars, strVars, rawVars,
                 passVars>>

\* BackendSMT._satisfiable(extra_constraints)
SatisfiableSMT(extra) ==
    /\ outcome' = Outcome("satisfiable", "smt", extra,
                          _satisfiable_smt(_assertion_stack, extra))
    /\ UNCHANGED <<_assertion_stack, scriptVars, normVars, apiVars, strVars, rawVars,
                 passVars>>

\* BackendSMTLibBase._satisfiable(extra_constraints)
SatisfiableSMTLib(extra) ==
    /\ outcome' = Outcome("satisfiable", "smtlib", extra, _satisfiable_smtlib(extra))
    /\ UNCHANGED <<_assertion_stack, scriptVars, normVars, apiVars, strVars, rawVars,
                 passVars>>

NextConv ==
    \/ \E ast \in ASTs \cup MalformedASTs : ConvertSMT(ast)
    \/ \E ast \in ASTs \cup MalformedASTs : ConvertSMTLib(ast)
    \/ \E asts \in ConstraintSets : ScriptSMTLib(asts)
    \/ \E extra \in ExtraConstraints : SatisfiableSMT(extra)
    \/ \E extra \in ExtraConstraints : SatisfiableSMTLib(extra)

\* ------------------------------------------------------ the specifications

\* the parts of the state a specification leaves alone
InitApiIdle ==
    /\ solver = [constraints |-> <<>>]
    /\ extras = <<>>
    /\ api = [call |-> "none", daggify |-> TRUE, extra |-> <<>>, before |-> <<>>,
              text |-> <<>>]

\* the arguments of a string operation besides the two strings, and its result laid
\* out by kind: the characters of a StringV, the number and width of a BVV, a truth
\* value, or the exception raised
NoArgs == [start_idx |-> 0, end_idx |-> 0, bitlength |-> 0, replacement |-> <<>>]

NoStrResult ==
    [op |-> "none", args |-> NoArgs, status |-> "", exc |-> "",
     chars |-> <<>>, number |-> 0, bits |-> 0, truth |-> FALSE]

InitStrIdle ==
    /\ str_s = <<>>
    /\ str_t = <<>>
    /\ str_result = NoStrResult

InitRawIdle ==
    /\ raw_op = ""
    /\ raw_result = <<>>

InitPassIdle ==
    /\ pass_tree = <<>>
    /\ pass_pos = <<>>
    /\ pass_stack = <<>>

InitRestIdle == InitApiIdle /\ InitStrIdle /\ InitRawIdle /\ InitPassIdle

Init == InitScript /\ InitNormIdle /\ InitConv /\ InitRestIdle
Next == NextScript
Spec == Init /\ [][Next]_vars

InitN == InitNorm /\ InitScriptIdle /\ InitConv /\ InitRestIdle
SpecNorm == InitN /\ [][NextNorm]_vars

InitC == InitConv /\ InitScriptIdle /\ InitNormIdle /\ InitRestIdle
SpecConv == InitC /\ [][NextConv]_vars

\* ------------------------------------------------ the public script methods

\* the script built from solver.constraints first and the extra constraints behind them
get_satisfiability_solver_first(self, slv, extra, iteration) ==
    LET all_csts == slv.constraints \o extra
    IN [text |-> _get_satisfiability_smt_script(self, all_csts, iteration),
        solver |-> slv]

\* get_satisfiability_smt_script(self, solver, extras): the text returned and
\* the solver object as the call leaves it
get_satisfiability_smt_script(self, slv, extra, iteration) ==
    LET all_csts == extra \o slv.constraints
    IN [text |-> _get_satisfiability_smt_script(self, all_csts, iteration),
        solver |-> slv]

\* get_full_model_smt_script(self, solver, extras)
get_full_model_smt_script(self, slv, extra, iteration) ==
    LET all_csts == extra \o slv.constraints
    IN [text |-> _get_full_model_smt_script(self, all_csts, iteration),
        solver |-> slv]

\* the constraints a solver and a call's extra constraints are drawn from
ApiExprs ==
    { Equals(SymZ, SymX),
      Equals(SymY, SymZ),
      Equals(StrLength(SymX), IntConst(3)) }

InitApi ==
    /\ solver \in [constraints : SeqsUpTo(ApiExprs, MaxCsts)]
    /\ extras \in SeqsUpTo(ApiExprs, MaxCsts)
    /\ api = [call |-> "none", daggify |-> TRUE, extra |-> <<>>, before |-> <<>>,
              text |-> <<>>]

\* BackendSMTLibBase(daggify=d).get_satisfiability_smt_script(solver, extra_constraints)
PublicSatisfiability(d) ==
    \E iteration \in Perms(free_variable_set(extras \o solver.constraints)) :
        LET r == get_satisfiability_smt_script([daggify |-> d], solver,
                                               extras, iteration)
        IN /\ solver' = r.solver
           /\ api' = [call |-> "sat", daggify |-> d, extra |-> extras,
                      before |-> solver.constraints, text |-> r.text]
           /\ UNCHANGED extras
           /\ UNCHANGED <<scriptVars, normVars, convVars, strVars, rawVars, passVars>>

\* BackendSMTLibBase(daggify=d).get_full_model_smt_script(solver, extra_constraints)
PublicFullModel(d) ==
    \E iteration \in Perms(free_variable_set(extras \o solver.constraints)) :
        LET r == get_full_model_smt_script([daggify |-> d], solver, extras,
                                           iteration)
        IN /\ solver' = r.solver
           /\ api' = [call |-> "full", daggify |-> d, extra |-> extras,
                      before |-> solver.constraints, text |-> r.text]
           /\ UNCHANGED extras
           /\ UNCHANGED <<scriptVars, normVars, convVars, strVars, rawVars, passVars>>

NextApi ==
    \/ \E d \in BOOLEAN : PublicSatisfiability(d)
    \/ \E d \in BOOLEAN : PublicFullModel(d)

InitA ==
    /\ InitApi /\ InitScriptIdle /\ InitNormIdle /\ InitConv
    /\ InitStrIdle /\ InitRawIdle /\ InitPassIdle
SpecApi == InitA /\ [][NextApi]_vars

\* ------------------------------------------------ claripy/strings.py

\* a Python string is the sequence of its characters
MaxStrLen == 2
Alphabet == {"a", ".", "*", NL}
PyStrings == SeqsUpTo(Alphabet, MaxStrLen)

\* the widths asked of StrLen and StrIndexOf
Widths == {8, 32}

\* the replacement patterns handed to StrReplace
Replacements == {<<>>, <<"b">>}

StringV(value) == [value |-> value]

\* bv.BVV(value, bits): a bit-vector value, here with the number it was built from
BVV(value, bits) == [value |-> value, bits |-> bits]

PyReturned(value) == [status |-> "returned", value |-> value]
PyRaised(exc) == [status |-> "raised", value |-> exc]

\* value[i] for i >= 0
PyIndex(value, i) ==
    IF i < Len(value) THEN PyReturned(<<value[i + 1]>>) ELSE PyRaised("IndexError")

\* value[a:b] for a >= 0 and b >= 0
PySlice(value, a, b) ==
    LET stop == IF b < Len(value) THEN b ELSE Len(value)
    IN SubSeq(value, a + 1, stop)

\* whether sub stands in value at index i (counted from 0)
OccursAt(value, sub, i) ==
    /\ i + Len(sub) <= Len(value)
    /\ SubSeq(value, i + 1, i + Len(sub)) = sub

Occurrences(value, sub) == {i \in 0..Len(value) : OccursAt(value, sub, i)}

Lowest(S) == CHOOSE i \in S : \A j \in S : i <= j

\* sub in value
PyContains(value, sub) == Occurrences(value, sub) # {}

\* value.index(sub)
PyStrIndex(value, sub) ==
    IF Occurrences(value, sub) = {} THEN PyRaised("ValueError")
    ELSE PyReturned(Lowest(Occurrences(value, sub)))

\* value.replace(old, new, 1)
PyReplaceFirst(value, old, new) ==
    IF Occurrences(value, old) = {} THEN value
    ELSE LET i == Lowest(Occurrences(value, old))
         IN SubSeq(value, 1, i) \o new \o SubSeq(value, i + Len(old) + 1, Len(value))

\* ---- the re module, for patterns made of '^', '$', '.', '*' and plain characters

ReItem(kind, ch) == [kind |-> kind, ch |-> ch, star |-> FALSE]

RECURSIVE ReParse(_, _)
\* re.compile: the items of a pattern, or the error of a '*' with nothing to repeat or
\* behind another '*'
ReParse(pattern, items) ==
    IF pattern = <<>> THEN [ok |-> TRUE, items |-> items]
    ELSE LET c == Head(pattern)
             n == Len(items)
         IN CASE c = "*" ->
                   IF n = 0 \/ items[n].kind \in {"bol", "eol"} \/ items[n].star
                   THEN [ok |-> FALSE, items |-> <<>>]
                   ELSE ReParse(Tail(pattern), [items EXCEPT ![n].star = TRUE])
              [] c = "." -> ReParse(Tail(pattern), Append(items, ReItem("any", c)))
              [] c = "^" -> ReParse(Tail(pattern), Append(items, ReItem("bol", c)))
              [] c = "$" -> ReParse(Tail(pattern), Append(items, ReItem("eol", c)))
              [] OTHER -> ReParse(Tail(pattern), Append(items, ReItem("lit", c)))

\* '.' takes any character but the newline, a plain character takes itself
ReTakes(item, c) ==
    \/ item.kind = "any" /\ c # NL
    \/ item.kind = "lit" /\ c = item.ch

\* '^' holds at the start; '$' holds at the end and before a newline that ends the string
ReHolds(item, value, pos) ==
    \/ item.kind = "bol" /\ pos = 0
    \/ item.kind = "eol"
       /\ (pos = Len(value) \/ (pos = Len(value) - 1 /\ value[Len(value)] = NL))

RECURSIVE ReMatchFrom(_, _, _, _)
\* whether the items from the k-th on match value from position pos on
ReMatchFrom(items, k, value, pos) ==
    IF k > Len(items) THEN TRUE
    ELSE LET item == items[k]
         IN IF item.star
            THEN \/ ReMatchFrom(items, k + 1, value, pos)
                 \/ /\ pos < Len(value)
                    /\ ReTakes(item, value[pos + 1])
                    /\ ReMatchFrom(items, k, value, pos + 1)
            ELSE IF item.kind \in {"bol", "eol"}
            THEN ReHolds(item, value, pos) /\ ReMatchFrom(items, k + 1, value, pos)
            ELSE /\ pos < Len(value)
                 /\ ReTakes(item, value[pos + 1])
                 /\ ReMatchFrom(items, k + 1, value, pos + 1)

\* re.match(pattern, value) is not None
re_match(pattern, value) ==
    LET parsed == ReParse(pattern, <<>>)
    IN IF parsed.ok THEN PyReturned(ReMatchFrom(parsed.items, 1, value, 0))
       ELSE PyRaised("re.error")

\* ---- the functions of strings.py

strings_StrConcat(args) ==
    PyReturned(StringV(Flatten([k \in 1..Len(args) |-> args[k].value])))

strings_Substr(start_idx, end_idx, initial_string) ==
    IF start_idx = end_idx
    THEN LET c == PyIndex(initial_string.value, start_idx)
         IN IF c.status = "raised" THEN c ELSE PyReturned(StringV(c.value))
    ELSE PyReturned(StringV(PySlice(initial_string.value, start_idx, end_idx)))

strings_StrReplace(initial_string, pattern_to_be_replaced, replacement_pattern) ==
    PyReturned(StringV(PyReplaceFirst(initial_string.value, pattern_to_be_replaced.value,
                                      replacement_pattern.value)))

\* StrLen with the width of StrIndexOf
strings_StrLen_32(input_string, bitlength) == PyReturned(BVV(Len(input_string.value), 32))

strings_StrLen(input_string, bitlength) ==
    PyReturned(BVV(Len(input_string.value), bitlength))

strings_StrContains(input_string, substring) ==
    PyReturned(PyContains(input_string.value, substring.value))

strings_StrPrefixOf(prefix, input_string) ==
    re_match(<<"^">> \o prefix.value, input_string.value)

strings_StrSuffixOf(suffix, input_string) ==
    re_match(<<".", "*">> \o suffix.value \o <<"$">>, input_string.value)

strings_StrIndexOf(input_string, substring, bitlength) ==
    LET i == PyStrIndex(input_string.value, substring.value)
    IN IF i.status = "raised" THEN PyReturned(BVV(-1, 32))
       ELSE PyReturned(BVV(i.value, 32))

InitStr ==
    /\ str_s \in PyStrings
    /\ str_t \in PyStrings
    /\ str_result = NoStrResult

StrResult(op, args, r) ==
    LET ok == r.status = "returned"
        string == ok /\ op \in {"StrConcat", "Substr", "StrReplace"}
        vector == ok /\ op \in {"StrLen", "StrIndexOf"}
        truth == ok /\ op \in {"StrContains", "StrPrefixOf", "StrSuffixOf"}
    IN [op |-> op, args |-> args, status |-> r.status,
        exc |-> IF ok THEN "" ELSE r.value,
        chars |-> IF string THEN r.value.value ELSE <<>>,
        number |-> IF vector THEN r.value.value ELSE 0,
        bits |-> IF vector THEN r.value.bits ELSE 0,
        truth |-> IF truth THEN r.value ELSE FALSE]

StrFrame ==
    /\ UNCHANGED <<str_s, str_t>>
    /\ UNCHANGED <<scriptVars, normVars, convVars, apiVars, rawVars, passVars>>

CallStrConcat ==
    /\ str_result' = StrResult("StrConcat", NoArgs,
                               strings_StrConcat(<<StringV(str_s), StringV(str_t)>>))
    /\ StrFrame

CallSubstr(start_idx, end_idx) ==
    /\ str_result' = StrResult("Substr",
                               [NoArgs EXCEPT !.start_idx = start_idx,
                                              !.end_idx = end_idx],
                               strings_Substr(start_idx, end_idx, StringV(str_s)))
    /\ StrFrame

CallStrReplace(replacement) ==
    /\ str_result' = StrResult("StrReplace", [NoArgs EXCEPT !.replacement = replacement],
                               strings_StrReplace(StringV(str_s), StringV(str_t),
                                                  StringV(replacement)))
    /\ StrFrame

CallStrLen(bitlength) ==
    /\ str_result' = StrResult("StrLen", [NoArgs EXCEPT !.bitlength = bitlength],
                               strings_StrLen(StringV(str_s), bitlength))
    /\ StrFrame

CallStrContains ==
    /\ str_result' = StrResult("StrContains", NoArgs,
                               strings_StrContains(StringV(str_s), StringV(str_t)))
    /\ StrFrame

CallStrPrefixOf ==
    /\ str_result' = StrResult("StrPrefixOf", NoArgs,
                               strings_StrPrefixOf(StringV(str_t), StringV(str_s)))
    /\ StrFrame

CallStrSuffixOf ==
    /\ str_result' = StrResult("StrSuffixOf", NoArgs,
                               strings_StrSuffixOf(StringV(str_t), StringV(str_s)))
    /\ StrFrame

CallStrIndexOf(bitlength) ==
    /\ str_result' = StrResult("StrIndexOf", [NoArgs EXCEPT !.bitlength = bitlength],
                               strings_StrIndexOf(StringV(str_s), StringV(str_t),
                                                  bitlength))
    /\ StrFrame

NextStr ==
    \/ CallStrConcat
    \/ \E start_idx, end_idx \in 0..MaxStrLen : CallSubstr(start_idx, end_idx)
    \/ \E replacement \in Replacements : CallStrReplace(replacement)
    \/ \E bitlength \in Widths : CallStrLen(bitlength)
    \/ CallStrContains
    \/ CallStrPrefixOf
    \/ CallStrSuffixOf
    \/ \E bitlength \in Widths : CallStrIndexOf(bitlength)

InitS ==
    /\ InitStr /\ InitScriptIdle /\ InitNormIdle /\ InitConv
    /\ InitApiIdle /\ InitRawIdle /\ InitPassIdle
SpecStr == InitS /\ [][NextStr]_vars

\* ------------------------------------------------ the binary raw handlers

\* the operations of BackendSMTLibBase whose raw handler takes two translated operands
\* and combines them by arithmetic or comparison
BinaryOps == {"__add__", "__sub__", "__eq__", "__ne__", "__lt__", "__le__", "__gt__",
              "__ge__"}

InitRaw ==
    /\ expr_left \in Operands
    /\ expr_rigth \in Operands
    /\ norm_pc = {}
    /\ norm_result = <<>>
    /\ norm_swapped = <<>>
    /\ raw_op \in BinaryOps
    /\ raw_result = <<>>

\* self._op_raw[raw_op](expr_left, expr_rigth)
CallRaw ==
    /\ raw_result' = raw_smtlib(raw_op, <<expr_left, expr_rigth>>)
    /\ UNCHANGED raw_op
    /\ UNCHANGED <<scriptVars, normVars, convVars, apiVars, strVars, passVars>>

NextRaw == CallRaw

InitR ==
    /\ InitRaw /\ InitScriptIdle /\ InitConv
    /\ InitApiIdle /\ InitStrIdle /\ InitPassIdle
SpecRaw == InitR /\ [][NextRaw]_vars

\* ------------------------------------------------ interleaved translation passes

Passes == {1, 2}

\* the constraint trees of the passes: every operation in them has a handler
PassTrees ==
    { <<"__eq__", ASx, AVbar>>,
      <<"__eq__", ASy, ASx>>,
      <<"__eq__", <<"Concat", ASx, ASy>>, ASy>> }

RECURSIVE leaf_calls(_, _)
\* the leaves of a tree in the order a pass hands them to their handlers: depth first,
\* left to right, from argument position i on
leaf_calls(ast, i) ==
    IF ast[1] \in LeafOps THEN <<ast>>
    ELSE IF i > Len(ast) THEN <<>>
    ELSE IF i \in ChildPositions(ast) THEN leaf_calls(ast[i], 2) \o leaf_calls(ast, i + 1)
    ELSE leaf_calls(ast, i + 1)

InitPass ==
    /\ pass_tree \in [Passes -> PassTrees]
    /\ pass_pos = [p \in Passes |-> 0]
    /\ pass_stack = [p \in Passes |-> <<>>]
    /\ _assertion_stack = <<>>
    /\ outcome = NoOutcome

\* pass p calls the handler of its next leaf. _assertion_stack is the list of the one
\* backend both passes share; pass_stack[p] is the list of a backend that only pass p
\* uses. list.append is one indivisible step.
PassStep(p) ==
    /\ pass_pos[p] < Len(leaf_calls(pass_tree[p], 2))
    /\ LET leaf == leaf_calls(pass_tree[p], 2)[pass_pos[p] + 1]
       IN /\ _assertion_stack' = leaf_smt(leaf, _assertion_stack).stack
          /\ pass_stack' = [pass_stack EXCEPT ![p] = leaf_smt(leaf, pass_stack[p]).stack]
    /\ pass_pos' = [pass_pos EXCEPT ![p] = pass_pos[p] + 1]
    /\ UNCHANGED <<pass_tree, outcome>>
    /\ UNCHANGED <<scriptVars, normVars, apiVars, strVars, rawVars>>

NextPass == \E p \in Passes : PassStep(p)

InitP ==
    /\ InitPass /\ InitScriptIdle /\ InitNormIdle
    /\ InitApiIdle /\ InitStrIdle /\ InitRawIdle
SpecPass == InitP /\ [][NextPass]_vars

\* ------------------------------------------------ claims: script builder

IsDeclLine(l) == l # <<>> /\ l[1] = "(declare-fun "
IsAssertLine(l) == l # <<>> /\ l[1] = "(assert "

RECURSIVE NamesIn(_)
\* the symbol names occurring anywhere in an expression
NamesIn(e) ==
    IF e[1] = "Symbol" THEN {e[2]}
    ELSE IF e[1] \in {"String", "Int", "Bool", "BV"} THEN {}
    ELSE UNION {NamesIn(e[i]) : i \in 2..Len(e)}

ReferencedNames(cs) == UNION {NamesIn(cs[i]) : i \in 1..Len(cs)}

\* the lines of a satisfiability script are: the logic line, declaration lines,
\* assertion lines, (check-sat), and nothing else
SatShape(L) ==
    /\ Len(L) >= 2
    /\ L[1] = <<"(set-logic ALL)">>
    /\ L[Len(L)] = <<"(check-sat)">>
    /\ \E k \in 1..(Len(L) - 1) :
           /\ \A i \in 2..k : IsDeclLine(L[i])
           /\ \A i \in (k + 1)..(Len(L) - 1) : IsAssertLine(L[i])

\* C1: every satisfiability script, the empty AssertionSet's included, is the
\* (set-logic ALL) line, then the declaration lines, then the assertion lines, then one
\* (check-sat) line, with no declaration after an assertion and no blank line.
C1_SatScriptShape ==
    \A r \in log : r.variant = "sat" => SatShape(Lines(r.text))

\* C2: every script holds one (assert ...) line per member of the AssertionSet, the
\* i-th encoding the i-th member, also for a member that is a bare symbol.
C2_OneAssertPerMember ==
    \A r \in log :
        LET asserts == SelectSeq(Lines(r.text), IsAssertLine)
        IN /\ Len(asserts) = Len(constraints)
           /\ \A i \in 1..Len(constraints) :
                  asserts[i] = <<"(assert ">>
                               \o to_smtlib(constraints[i], daggify[r.inst]) \o <<")">>

\* the lines before the declaration block: the logic line, and the option line of a
\* model script
HeaderLines(variant) == IF variant = "sat" THEN 1 ELSE 2

C4_FullIsSatPlusTwoLines ==
    \A r1, r2 \in log :
        (r1.variant = "sat" /\ r2.variant = "full" /\ daggify[r1.inst] = daggify[r2.inst])
        => /\ Len(r1.text) >= 4
           /\ SubSeq(r1.text, 1, 2) = <<"(set-logic ALL)", NL>>
           /\ SubSeq(r1.text, Len(r1.text) - 1, Len(r1.text)) = <<"(check-sat)", NL>>
           /\ r2.text = <<"(set-logic ALL)", NL, "(set-option :produce-models true)", NL>>
                        \o SubSeq(r1.text, 3, Len(r1.text))
                        \o <<"(get-model)", NL>>

\* one backend returned both scripts for an AssertionSet with declarations and assertions
C4_Witness ==
    /\ constraints = <<Equals(SymXY, String("bar")), Equals(StrLength(SymX), IntConst(3))>>
    /\ \E r1, r2 \in log : r1.inst = r2.inst /\ r1.variant = "sat" /\ r2.variant = "full"

\* C5, as claimed: for a fixed AssertionSet each script variant is the same text on
\* every call and on every backend instance, whatever the instances were constructed
\* with.
C5_SameTextOnEveryInstance ==
    \A r1, r2 \in log : r1.variant = r2.variant => r1.text = r2.text

\* C5, amended: for a fixed AssertionSet each script variant is the same text on every
\* call of one backend instance and on any two instances constructed with the same
\* daggify value.
C5_SameTextForSameDaggify ==
    \A r1, r2 \in log :
        (r1.variant = r2.variant /\ daggify[r1.inst] = daggify[r2.inst])
        => r1.text = r2.text

\* two instances with the same daggify value returned the same variant for an
\* AssertionSet with several free variables
C5_Witness ==
    /\ Cardinality(free_variable_set(constraints)) >= 3
    /\ \E r1, r2 \in log :
           /\ r1.inst # r2.inst
           /\ r1.variant = r2.variant
           /\ daggify[r1.inst] = daggify[r2.inst]

\* ---------------------------------------------------- claims: normalizer

\* the sort pysmt gives an expression
SortOf(e) ==
    CASE e[1] = "Symbol" -> e[3]
      [] e[1] \in {"String", "StrConcat"} -> "String"
      [] e[1] \in {"Int", "StrLength"} -> "Int"
      [] e[1] = "BV" -> "BV"
      [] OTHER -> "Bool"

IsStringSort(e) == SortOf(e) = "String"

\* C6: when one operand is a string-sort expression and the other a fixed-width
\* literal, normalize returns both in their places, the literal replaced by the integer
\* literal of its signed value.
C6_LiteralReplacedInPlace ==
    "normal" \in norm_pc =>
        /\ (IsStringSort(expr_left) /\ is_bv_constant(expr_rigth))
           => norm_result = <<expr_left, IntConst(bv_signed_value(expr_rigth))>>
        /\ (is_bv_constant(expr_left) /\ IsStringSort(expr_rigth))
           => norm_result = <<IntConst(bv_signed_value(expr_left)), expr_rigth>>

\* C7: normalize(a, b) = (a', b') implies normalize(b, a) = (b', a').
C7_NormalizerSymmetry ==
    norm_pc = {"normal", "swapped"} =>
        norm_swapped = <<norm_result[2], norm_result[1]>>

\* ------------------------------------------------ claims: the two backends

RECURSIVE OpsIn(_)
\* the operation names of a constraint tree's nodes
OpsIn(ast) ==
    {ast[1]} \cup UNION {OpsIn(ast[i]) : i \in ChildPositions(ast)}

\* the operation names in a tree that the backend has in neither table
Unregistered(backend, ast) == OpsIn(ast) \ (_op_expr(backend) \cup _op_raw(backend))

FailedOn(ops) ==
    /\ outcome.status = "raised"
    /\ outcome.exc = "UnsupportedOperationError"
    /\ outcome.arg \in ops
    /\ outcome.value = <<>>

\* C8: translating a tree that holds, at any depth, an operation registered in neither
\* table of the backend fails with an UnsupportedOperationError naming an unregistered
\* operation; no expression is returned, and no script is produced for a constraint set
\* that holds such a tree.
C8_UnregisteredOpFails ==
    /\ (outcome.call = "convert" /\ Unregistered(outcome.backend, outcome.input) # {})
       => FailedOn(Unregistered(outcome.backend, outcome.input))
    /\ outcome.call = "script"
       => LET bad == UNION {Unregistered("smtlib", outcome.input[i]) :
                               i \in 1..Len(outcome.input)}
          IN bad # {} => FailedOn(bad)

\* a script was asked for a constraint set whose first tree holds the unregistered
\* Concat two levels below its root
C8_Witness ==
    /\ outcome.call = "script"
    /\ Len(outcome.input) = 2
    /\ outcome.input[1][1] = "Or"
    /\ outcome.status = "raised"
    /\ outcome.arg = "Concat"

\* C9: _satisfiable of BackendSMTLibBase and of BackendSMT always raises the
\* backend-unavailable error and never returns a value.
C9_SatisfiableAlwaysRaises ==
    outcome.call = "satisfiable"
    => /\ outcome.status = "raised"
       /\ outcome.exc = "BackendError"
       /\ outcome.value = <<>>

IsDeclareConstLine(l) == l # <<>> /\ l[1] = "(declare-const "

\* C10: _assertion_stack holds one Declaration per distinct symbol name, however often
\* a symbol is translated, and the text BackendSMT._satisfiable returns has at most one
\* declare line per name.
C10_OneDeclarationPerName ==
    /\ \A i, j \in 1..Len(_assertion_stack) :
           i # j => _assertion_stack[i].name # _assertion_stack[j].name
    /\ (outcome.call = "satisfiable" /\ outcome.status = "returned")
       => LET decls == SelectSeq(Split(outcome.value, NL), IsDeclareConstLine)
          IN \A i, j \in 1..Len(decls) : i # j => decls[i][2] # decls[j][2]

RECURSIVE HandledBefore(_, _)
\* the leaves of a tree that BackendSMT hands to a handler before the pass ends, in
\* traversal order, and whether the pass got through the whole tree
HandledBefore(ast, i) ==
    IF ast[1] \in _op_expr("smt") THEN [leaves |-> <<ast>>, ok |-> TRUE]
    ELSE IF i > Len(ast) THEN [leaves |-> <<>>, ok |-> ast[1] \in _op_raw("smt")]
    ELSE IF i \notin ChildPositions(ast) THEN HandledBefore(ast, i + 1)
    ELSE LET first == HandledBefore(ast[i], 2)
             rest == HandledBefore(ast, i + 1)
         IN IF first.ok THEN [leaves |-> first.leaves \o rest.leaves, ok |-> rest.ok]
            ELSE first

IsStringS(ast) == ast[1] = "StringS"

\* the declarations BackendSMT.StringS makes for a sequence of leaves
DeclarationsOf(leaves) ==
    LET symbols == SelectSeq(leaves, IsStringS)
    IN [k \in 1..Len(symbols) |-> DeclareConst(symbols[k][2], "String")]

\* C11: when a translation pass of BackendSMT raises, the pending-declaration list is
\* the list from before the pass, entry for entry, followed by the declarations of the
\* symbols translated before the error, in traversal order: nothing is removed,
\* reordered or rolled back.
C11_NoRollbackOnError ==
    [][(outcome'.call = "convert" /\ outcome'.backend = "smt"
        /\ outcome'.status = "raised")
       => _assertion_stack' =
             _assertion_stack
                \o DeclarationsOf(HandledBefore(outcome'.input, 2).leaves)]_vars

\* a pass that declared x and y and then failed on StrConcat, on a list that already
\* held an entry
C11_Witness ==
    /\ outcome.call = "convert" /\ outcome.backend = "smt"
    /\ outcome.status = "raised" /\ outcome.arg = "StrConcat"
    /\ Len(_assertion_stack) >= 3
    /\ _assertion_stack[Len(_assertion_stack) - 1].name = "x"
    /\ _assertion_stack[Len(_assertion_stack)].name = "y"

\* ------------------------------------------------ claims: the public script methods

\* the lines of a script that stand for the members of its AssertionSet
MemberLines(text, variant, cs) ==
    LET L == Lines(text)
        first == HeaderLines(variant) + Cardinality(free_variable_set(cs))
    IN SubSeq(L, first + 1, first + Len(cs))

\* C12: the scripts of get_satisfiability_smt_script and get_full_model_smt_script hold,
\* behind the declarations, one line per member of the extra constraints followed by
\* one line per member of solver.constraints, each in its own order; with no extra
\* constraints those are the lines of solver.constraints alone; solver.constraints is
\* the same after the call as before.
C12_ExtraThenSolverConstraints ==
    api.call # "none"
    => LET cs == api.extra \o api.before
           M == MemberLines(api.text, api.call, cs)
       IN /\ solver.constraints = api.before
          /\ Len(M) = Len(api.extra) + Len(solver.constraints)
          /\ \A i \in 1..Len(api.extra) :
                 M[i] = _expr_to_smtlib(api.extra[i], api.daggify)
          /\ \A i \in 1..Len(solver.constraints) :
                 M[Len(api.extra) + i]
                    = _expr_to_smtlib(solver.constraints[i], api.daggify)

\* a call with two extra constraints on a solver that holds two different ones
C12_Witness ==
    /\ api.call = "full"
    /\ Len(api.extra) = 2 /\ Len(solver.constraints) = 2
    /\ api.extra[1] # api.extra[2]
    /\ solver.constraints[1] # solver.constraints[2]
    /\ api.extra # solver.constraints
    /\ api.extra[1] \notin {solver.constraints[1], solver.constraints[2]}

\* ------------------------------------------------ claims: claripy/strings.py

\* C13: Substr(start, end, s) with 0 <= start <= end < len(s) returns the single
\* character s[start] when start = end, and otherwise the characters at the indices
\* start..end, both included: end - start + 1 of them.
C13_SubstrInclusive ==
    (/\ str_result.op = "Substr"
     /\ str_result.args.start_idx <= str_result.args.end_idx
     /\ str_result.args.end_idx < Len(str_s))
    => LET start == str_result.args.start_idx
           end == str_result.args.end_idx
       IN /\ str_result.status = "returned"
          /\ Len(str_result.chars) = end - start + 1
          /\ \A k \in start..end : str_result.chars[k - start + 1] = str_s[k + 1]

BeginsWith(value, prefix) ==
    Len(prefix) <= Len(value) /\ SubSeq(value, 1, Len(prefix)) = prefix

EndsWith(value, suffix) ==
    /\ Len(suffix) <= Len(value)
    /\ SubSeq(value, Len(value) - Len(suffix) + 1, Len(value)) = suffix

\* C14: for all strings p, q, s, whatever characters they hold, StrPrefixOf(p, s) is
\* true exactly when s begins with the characters of p and StrSuffixOf(q, s) is true
\* exactly when s ends with the characters of q: a literal comparison, not a pattern
\* search.
C14_PrefixSuffixLiteral ==
    /\ str_result.op = "StrPrefixOf"
       => /\ str_result.status = "returned"
          /\ str_result.truth = BeginsWith(str_s, str_t)
    /\ str_result.op = "StrSuffixOf"
       => /\ str_result.status = "returned"
          /\ str_result.truth = EndsWith(str_s, str_t)

\* C15: StrIndexOf(s, sub, width) returns a fixed-width integer of the requested width
\* whose value is the lowest index at which sub occurs in s, or -1, at that same width,
\* when sub does not occur.
C15_IndexOfRequestedWidth ==
    str_result.op = "StrIndexOf"
    => /\ str_result.status = "returned"
       /\ str_result.bits = str_result.args.bitlength
       /\ IF Occurrences(str_s, str_t) = {} THEN str_result.number = -1
          ELSE /\ str_result.number \in Occurrences(str_s, str_t)
               /\ \A i \in Occurrences(str_s, str_t) : str_result.number <= i

\* C16: StrLen(s, width) returns a fixed-width integer of the requested width whose
\* value is the number of characters of s, and s is the same afterwards.
C16_LengthAtRequestedWidth ==
    str_result.op = "StrLen"
    => /\ str_result.status = "returned"
       /\ str_result.bits = str_result.args.bitlength
       /\ str_result.number = Cardinality(DOMAIN str_s)

\* the length of a two-character string was asked at width 8
C16_Witness ==
    /\ str_result.op = "StrLen"
    /\ str_result.args.bitlength = 8
    /\ Len(str_s) = 2
    /\ str_result.number = 2 /\ str_result.bits = 8

RECURSIVE Denote(_)
\* the value a constant expression of the SMT-LIB theory of strings denotes
Denote(e) ==
    CASE e[1] \in {"String", "Int"} -> e[2]
      [] e[1] = "StrConcat" -> Denote(e[2]) \o Denote(e[3])
      [] e[1] = "StrSubstr" ->
            LET v == Denote(e[2])
                i == Denote(e[3])
                n == Denote(e[4])
                last == IF i + n < Len(v) THEN i + n ELSE Len(v)
            IN IF 0 <= i /\ i < Len(v) /\ n > 0 THEN SubSeq(v, i + 1, last) ELSE <<>>
      [] e[1] = "StrReplace" ->
            LET v == Denote(e[2])
                old == Denote(e[3])
                occ == Occurrences(v, old)
            IN IF occ = {} THEN v
               ELSE SubSeq(v, 1, Lowest(occ)) \o Denote(e[4])
                    \o SubSeq(v, Lowest(occ) + Len(old) + 1, Len(v))
      [] e[1] = "StrContains" -> Occurrences(Denote(e[2]), Denote(e[3])) # {}
      [] e[1] = "StrPrefixOf" -> BeginsWith(Denote(e[3]), Denote(e[2]))
      [] e[1] = "StrSuffixOf" -> EndsWith(Denote(e[3]), Denote(e[2]))
      [] e[1] = "StrIndexOf" ->
            LET occ == {i \in Occurrences(Denote(e[2]), Denote(e[3])) : i >= Denote(e[4])}
            IN IF occ = {} THEN -1 ELSE Lowest(occ)

\* the expression the raw handler of BackendSMTLibBase builds for the arguments of the
\* last string operation, each argument in the position it had in the concrete call
HandlerExpression ==
    CASE str_result.op = "Substr" ->
            raw_smtlib("StrSubstr", <<IntConst(str_result.args.start_idx),
                                      IntConst(str_result.args.end_idx),
                                      String(str_s)>>)
      [] str_result.op = "StrReplace" ->
            raw_smtlib("StrReplace", <<String(str_s), String(str_t),
                                       String(str_result.args.replacement)>>)
      [] str_result.op = "StrIndexOf" ->
            raw_smtlib("StrIndexOf", <<String(str_s), String(str_t),
                                       str_result.args.bitlength>>)
      [] str_result.op = "StrContains" ->
            raw_smtlib("StrContains", <<String(str_s), String(str_t)>>)
      [] str_result.op = "StrPrefixOf" ->
            raw_smtlib("StrPrefixOf", <<String(str_t), String(str_s)>>)
      [] str_result.op = "StrSuffixOf" ->
            raw_smtlib("StrSuffixOf", <<String(str_t), String(str_s)>>)
      [] str_result.op = "StrConcat" ->
            raw_smtlib("StrConcat", <<String(str_s), String(str_t)>>)

\* the plain value of the last concrete result: the characters of a StringV, the
\* number of a BVV, a truth value as it is
PlainValue ==
    CASE str_result.op \in {"Substr", "StrReplace", "StrConcat"} -> str_result.chars
      [] str_result.op = "StrIndexOf" -> str_result.number
      [] OTHER -> str_result.truth

\* C17: for substr, replace, index_of, contains and concat, and every concrete argument
\* tuple, the value the evaluator of strings.py returns is the value that the
\* expression built by the matching raw handler from the same arguments, in the same
\* positions, denotes in SMT-LIB; in particular Substr(start, end, s) agrees with the
\* StrSubstr(s, start, count) built from the same three arguments. (prefix_of and
\* suffix_of, which the claim also names, are the subject of C14.)
C17_ConcreteAgreesWithSMTLib ==
    (/\ str_result.op \in {"Substr", "StrReplace", "StrIndexOf", "StrContains",
                           "StrConcat"}
     /\ str_result.status = "returned")
    => PlainValue = Denote(HandlerExpression)

\* ------------------------------------------------ claims: leaf and raw handlers

Letters == (65..90) \cup (97..122) \cup {95}
Digits == 48..57

\* a name that is an identifier: letters, digits and '_', not empty, no digit first
IsValidIdentifier(name) ==
    LET c == CodePoints(name)
    IN /\ c # <<>>
       /\ c[1] \in Letters
       /\ \A k \in 1..Len(c) : c[k] \in Letters \cup Digits

RECURSIVE SymbolLeaves(_)
\* the StringS and BVS leaves of a constraint tree
SymbolLeaves(ast) ==
    IF ast[1] \in {"StringS", "BVS"} THEN {ast}
    ELSE UNION {SymbolLeaves(ast[i]) : i \in ChildPositions(ast)}

\* the symbol leaves of a tree that the backend has a handler for and whose name is not
\* an identifier
MalformedLeaves(backend, ast) ==
    {leaf \in SymbolLeaves(ast) :
        leaf[1] \in _op_expr(backend) /\ ~IsValidIdentifier(leaf[2])}

\* C18: a StringS or BVS leaf whose name is not a valid identifier is rejected with
\* MalformedLiteralError when it is translated: the pass returns no expression, no
\* declaration of such a name is on the pending list, and none is in the text of
\* BackendSMT._satisfiable.
C18_MalformedNameRejected ==
    /\ (outcome.call = "convert" /\ MalformedLeaves(outcome.backend, outcome.input) # {})
       => /\ outcome.status = "raised"
          /\ outcome.exc = "MalformedLiteralError"
          /\ outcome.value = <<>>
    /\ \A i \in 1..Len(_assertion_stack) : IsValidIdentifier(_assertion_stack[i].name)
    /\ (outcome.call = "satisfiable" /\ outcome.status = "returned")
       => LET decls == SelectSeq(Split(outcome.value, NL), IsDeclareConstLine)
          IN \A i \in 1..Len(decls) : IsValidIdentifier(decls[i][2])

\* integer addition and subtraction of pysmt
Plus(l, r) == <<"Plus", l, r>>
Minus(l, r) == <<"Minus", l, r>>

\* what each binary operation makes of two operands that are ready to be combined
Combined(op, l, r) ==
    CASE op = "__add__" -> Plus(l, r)
      [] op = "__sub__" -> Minus(l, r)
      [] op = "__eq__" -> Equals(l, r)
      [] op = "__ne__" -> NotEquals(l, r)
      [] op = "__lt__" -> LT(l, r)
      [] op = "__le__" -> LE(l, r)
      [] op = "__gt__" -> GT(l, r)
      [] op = "__ge__" -> GE(l, r)

\* C19: each binary raw handler of BackendSMTLibBase (__eq__, __ne__, __lt__, __le__,
\* __gt__, __ge__, __add__, __sub__) combines the two operands as _normalize_arguments
\* returns them, and __add__ and __sub__ build the integer sum and difference of the
\* normalized operands.
C19_BinaryHandlersNormalize ==
    raw_result # <<>>
    => LET n == _normalize_arguments(expr_left, expr_rigth)
       IN raw_result = Combined(raw_op, n[1], n[2])

\* ------------------------------------------------ claims: interleaved passes

RECURSIVE IsMerge(_, _, _)
\* whether list m holds the entries of a and of b, each in its own order
IsMerge(m, a, b) ==
    IF m = <<>> THEN a = <<>> /\ b = <<>>
    ELSE \/ a # <<>> /\ Head(m) = Head(a) /\ IsMerge(Tail(m), Tail(a), b)
         \/ b # <<>> /\ Head(m) = Head(b) /\ IsMerge(Tail(m), a, Tail(b))

PassesDone == \A p \in Passes : pass_pos[p] = Len(leaf_calls(pass_tree[p], 2))

\* C20: with one list per pass, each list holds exactly the declarations of the symbols
\* its pass has translated, in traversal order; the one list two interleaved passes
\* share holds the declarations of both, each pass's in its own order, so that the
\* interleaving decides the order of the whole, and a name both passes translate is on
\* it twice.
C20_ListPerPassExact ==
    /\ \A p \in Passes :
          pass_stack[p]
             = DeclarationsOf(SubSeq(leaf_calls(pass_tree[p], 2), 1, pass_pos[p]))
    /\ IsMerge(_assertion_stack, pass_stack[1], pass_stack[2])

\* both passes are done and the shared list has neither the order of pass 1 followed by
\* pass 2 nor that of pass 2 followed by pass 1, and holds a name twice
C20_Witness ==
    /\ PassesDone
    /\ _assertion_stack # pass_stack[1] \o pass_stack[2]
    /\ _assertion_stack # pass_stack[2] \o pass_stack[1]
    /\ \E i, j \in 1..Len(_assertion_stack) :
          i # j /\ _assertion_stack[i].name = _assertion_stack[j].name

\* ------------------------------------------------ claims: ordering handlers

\* an operand as it stands in the translated comparison: a bit-vector literal that
\* meets a string operation is the integer of its signed value, anything else is itself
SideOf(operand, other) ==
    IF is_bv_constant(operand) /\ is_str_op(other)
    THEN IntConst(bv_signed_value(operand))
    ELSE operand

\* C21: for each ordering handler (__lt__, __le__, __gt__, __ge__) and every operand pair
\* (a, b) the expression built has a on the left and b on the right; for a bit-vector
\* literal a and a string operation b it is Int(a) op b, not b op Int(a).
C21_OrderingKeepsSides ==
    (raw_result # <<>> /\ raw_op \in {"__lt__", "__le__", "__gt__", "__ge__"})
    => raw_result = Combined(raw_op, SideOf(expr_left, expr_rigth),
                             SideOf(expr_rigth, expr_left))

\* ------------------------------------------------ claims: the list over time

IsPrefix(a, b) == Len(a) <= Len(b) /\ SubSeq(b, 1, Len(a)) = a

\* C22: on a BackendSMT instance the pending-declaration list only grows. A translation
\* pass leaves the old entries where they were and adds one entry per StringS leaf it
\* handles; no other call changes the list; and the text of _satisfiable holds one
\* declare line for every entry of the list, in the list's order, whether or not the
\* query's constraints name the symbol.
C22_ListOnlyGrows ==
    [][/\ IsPrefix(_assertion_stack, _assertion_stack')
       /\ IF outcome'.call = "convert" /\ outcome'.backend = "smt"
          THEN Len(_assertion_stack') - Len(_assertion_stack)
                  = Len(DeclarationsOf(HandledBefore(outcome'.input, 2).leaves))
          ELSE _assertion_stack' = _assertion_stack
       /\ (outcome'.call = "satisfiable" /\ outcome'.backend = "smt")
          => /\ outcome'.status = "returned"
             /\ SelectSeq(Split(outcome'.value, NL), IsDeclareConstLine)
                   = [i \in 1..Len(_assertion_stack') |->
                         DeclareConst_repr(_assertion_stack'[i])]]_vars

\* _satisfiable was asked about x = "bar" alone and its text declares y, which an
\* earlier pass had translated
C22_Witness ==
    /\ outcome.call = "satisfiable" /\ outcome.backend = "smt"
    /\ outcome.input = <<Equals(SymX, String("bar"))>>
    /\ \E i \in 1..Len(_assertion_stack) : _assertion_stack[i].name = "y"
    /\ \E l \in Range(Split(outcome.value, NL)) : IsDeclareConstLine(l) /\ l[2] = "y"

====
